---- MODULE Spec2Model ----
(***************************************************************************)
(* QuantumLock: the App component (registration, login, logout over an     *)
(* AuthState kept in React state and mirrored to localStorage) and the     *)
(* helpers quantumHash and validatePassword.                               *)
(*                                                                         *)
(* A JavaScript string that the code inspects character by character (the  *)
(* password) is a sequence of one-character strings; a string that is only *)
(* compared or concatenated (username, digest, message) is a TLA+ string.  *)
(* A value of type T | null is Null or Some(v).                            *)
(***************************************************************************)
EXTENDS Naturals, Sequences, FiniteSets, TLC

VARIABLES
    username,       \* useState('')            the username input
    password,       \* useState('')            the password input
    error,          \* useState<string|null>   the failure message shown
    success,        \* useState<string|null>   the success message shown
    authState,      \* useState<AuthState>     users, currentUser, isAuthenticated
    effectPending,  \* the persist effect of the last commit has not run yet
    localStorage,   \* localStorage[STORAGE_KEY]: Null or Some(JSON text)
    queue,          \* the updates handlers have queued that are not committed
    mounted,        \* the component is mounted (its render has not thrown)
    lastCall        \* observation: the last handler call (or mount) and the
                    \* input values, authState and storage it started from

vars == <<username, password, error, success, authState, effectPending,
          localStorage, queue, mounted, lastCall>>

Null == <<>>
Some(v) == <<v>>

----------------------------------------------------------------------------
(* Inputs *)

NumUsernames == 2

UsernamePool == <<"alice", "Alice", "bob", "carol">>

Usernames == {""} \cup {UsernamePool[i] : i \in 1..NumUsernames}

PwShort == <<"s", "h", "o", "r", "t", "1", "!">>
PwValid == <<"V", "a", "l", "i", "d", "1", "P", "a", "s", "s", "!">>

Passwords == {<<>>, PwShort, PwValid}

----------------------------------------------------------------------------
(* utils/auth.ts *)

\* The text of a character sequence, as one string.
RECURSIVE Text(_)
Text(chars) == IF chars = <<>> THEN "" ELSE Head(chars) \o Text(Tail(chars))

\* crypto-js SHA256(message).toString(): the hex digest, kept symbolic (a
\* digest is determined by its message, and distinct messages give distinct
\* digests).
SHA256(message) == "sha256(" \o message \o ")"

\* Faulty variant of quantumHash: the second round hashes input + round1.
quantumHash_swapped(input) ==
    LET round1 == SHA256(input)
        round2 == SHA256(input \o round1)
        round3 == SHA256(round2 \o round1)
    IN  SHA256(round1 \o round2 \o round3)

quantumHash(input) ==
    LET round1 == SHA256(input)
        round2 == SHA256(round1 \o input)
        round3 == SHA256(round2 \o round1)
    IN  SHA256(round1 \o round2 \o round3)

UpperCase == {"A", "B", "C", "D", "E", "F", "G", "H", "I", "J", "K", "L", "M",
              "N", "O", "P", "Q", "R", "S", "T", "U", "V", "W", "X", "Y", "Z"}
LowerCase == {"a", "b", "c", "d", "e", "f", "g", "h", "i", "j", "k", "l", "m",
              "n", "o", "p", "q", "r", "s", "t", "u", "v", "w", "x", "y", "z"}
Digits == {"0", "1", "2", "3", "4", "5", "6", "7", "8", "9"}
SpecialChars == {"!", "@", "#", "$", "%", "^", "&", "*", "(", ")", ",", ".",
                 "?", "\"", ":", "{", "}", "|", "<", ">"}

\* Characters outside the Basic Multilingual Plane: two UTF-16 code units.
SupplementaryChars == {"U+1F600", "U+1F511"}

\* String.prototype.length counts UTF-16 code units.
RECURSIVE length(_)
length(chars) ==
    IF chars = <<>> THEN 0
    ELSE (IF Head(chars) \in SupplementaryChars THEN 2 ELSE 1) + length(Tail(chars))

\* RegExp.prototype.test for a one-character class.
test(class, chars) == \E i \in 1..Len(chars) : chars[i] \in class

minLength == 8

validatePassword(pw) ==
    LET hasUpperCase == test(UpperCase, pw)
        hasLowerCase == test(LowerCase, pw)
        hasNumbers == test(Digits, pw)
        hasSpecialChar == test(SpecialChars, pw)
    IN  /\ length(pw) >= minLength
        /\ hasUpperCase
        /\ hasLowerCase
        /\ hasNumbers
        /\ hasSpecialChar

----------------------------------------------------------------------------
(* JSON.stringify / JSON.parse on the AuthState, and the mount-time load *)

JSONstringify(state) ==
    [type |-> "object",
     members |-> <<
        [key |-> "users",
         value |-> [type |-> "array",
                    items |-> [i \in 1..Len(state.users) |->
                        [type |-> "object",
                         members |-> <<
                            [key |-> "username",
                             value |-> [type |-> "string",
                                        value |-> state.users[i].username]],
                            [key |-> "hash",
                             value |-> [type |-> "string",
                                        value |-> state.users[i].hash]] >>]]]],
        [key |-> "currentUser",
         value |-> IF state.currentUser = Null
                   THEN [type |-> "null"]
                   ELSE [type |-> "string", value |-> state.currentUser[1]]],
        [key |-> "isAuthenticated",
         value |-> [type |-> "boolean", value |-> state.isAuthenticated]] >>]

\* The member of a JSON object with the given key (the last one wins).
Member(json, key) ==
    LET idx == {i \in 1..Len(json.members) : json.members[i].key = key}
    IN  json.members[CHOOSE i \in idx : \A j \in idx : j <= i].value

\* Faulty variant of JSONparse: the users are read in reverse order.
JSONparse_reversed(text) ==
    LET users == Member(text, "users")
        cur == Member(text, "currentUser")
        n == Len(users.items)
    IN  [users |-> [i \in 1..n |->
                      [username |-> Member(users.items[n + 1 - i], "username").value,
                       hash |-> Member(users.items[n + 1 - i], "hash").value]],
         currentUser |-> IF cur.type = "null" THEN Null ELSE Some(cur.value),
         isAuthenticated |-> Member(text, "isAuthenticated").value]

JSONparse(text) ==
    LET users == Member(text, "users")
        cur == Member(text, "currentUser")
    IN  [users |-> [i \in 1..Len(users.items) |->
                      [username |-> Member(users.items[i], "username").value,
                       hash |-> Member(users.items[i], "hash").value]],
         currentUser |-> IF cur.type = "null" THEN Null ELSE Some(cur.value),
         isAuthenticated |-> Member(text, "isAuthenticated").value]

\* JSON.parse throws a SyntaxError on a text that is not JSON.
parseThrows(text) == text.type = "malformed"

\* The first render reads authState.isAuthenticated and, in the logged-out
\* branch, authState.users.length: it throws a TypeError when the parsed value
\* has no users array (stated on the JSON text that JSON.parse would decode).
renderThrows(text) ==
    ~ /\ text.type = "object"
      /\ \E i \in 1..Len(text.members) :
            /\ text.members[i].key = "users"
            /\ text.members[i].value.type = "array"

\* The mount fails: the initializer or the first render throws, and with no
\* error boundary React unmounts the component.
mountFails(stored) ==
    stored # Null /\ (parseThrows(stored[1]) \/ renderThrows(stored[1]))

\* Faulty variant of initialAuthState: the stored users are kept, the session is not.
initialAuthState_anonymous(stored) ==
    IF stored # Null
    THEN [JSONparse(stored[1]) EXCEPT !.currentUser = Null,
                                      !.isAuthenticated = FALSE]
    ELSE [users |-> <<>>, currentUser |-> Null, isAuthenticated |-> FALSE]

\* The lazy initializer of the authState hook.
initialAuthState(stored) ==
    IF stored # Null
    THEN JSONparse(stored[1])
    ELSE [users |-> <<>>, currentUser |-> Null, isAuthenticated |-> FALSE]

----------------------------------------------------------------------------
(* State updates queued by a handler and applied by React at the commit *)

setError(v) == [hook |-> "error", arg |-> v]
setSuccess(v) == [hook |-> "success", arg |-> v]
setUsername(v) == [hook |-> "username", arg |-> v]
setPassword(v) == [hook |-> "password", arg |-> v]
setAuthState(fn) == [hook |-> "authState", arg |-> fn]

\* Faulty variant of appendUser: the new list holds the new user alone.
appendUser_alone(prev, newUser) == [prev EXCEPT !.users = <<newUser>>]

\* Faulty variant of appendUser: the new user is logged in as well.
appendUser_loggedIn(prev, newUser) ==
    [prev EXCEPT !.users = Append(prev.users, newUser),
                 !.currentUser = Some(newUser.username),
                 !.isAuthenticated = TRUE]

\* Faulty variant of appendUser: the new user is put in front of the list.
appendUser_prepend(prev, newUser) ==
    [prev EXCEPT !.users = <<newUser>> \o prev.users]

\* The three functional updaters passed to setAuthState, applied to prev.
appendUser(prev, newUser) == [prev EXCEPT !.users = Append(prev.users, newUser)]

\* Faulty variant of setCurrentUser: the name is set, the flag is not.
setCurrentUser_nameOnly(prev, name) == [prev EXCEPT !.currentUser = Some(name)]

\* Faulty variant of setCurrentUser: a session that is open is kept.
setCurrentUser_keep(prev, name) ==
    IF prev.currentUser # Null THEN prev
    ELSE [prev EXCEPT !.currentUser = Some(name), !.isAuthenticated = TRUE]

setCurrentUser(prev, name) ==
    [prev EXCEPT !.currentUser = Some(name), !.isAuthenticated = TRUE]

\* Faulty variant of clearCurrentUser: the flag is cleared, the name is kept.
clearCurrentUser_flagOnly(prev) == [prev EXCEPT !.isAuthenticated = FALSE]

clearCurrentUser(prev) ==
    [prev EXCEPT !.currentUser = Null, !.isAuthenticated = FALSE]

applyUpdater(fn, prev) ==
    CASE fn.fn = "appendUser" -> appendUser(prev, fn.newUser)
      [] fn.fn = "setCurrentUser" -> setCurrentUser(prev, fn.username)
      [] fn.fn = "clearCurrentUser" -> clearCurrentUser(prev)

applyUpdate(st, upd) ==
    CASE upd.hook = "error" -> [st EXCEPT !.error = upd.arg]
      [] upd.hook = "success" -> [st EXCEPT !.success = upd.arg]
      [] upd.hook = "username" -> [st EXCEPT !.username = upd.arg]
      [] upd.hook = "password" -> [st EXCEPT !.password = upd.arg]
      [] upd.hook = "authState" ->
            [st EXCEPT !.authState = applyUpdater(upd.arg, st.authState)]

RECURSIVE flush(_, _)
flush(st, updates) ==
    IF updates = <<>> THEN st
    ELSE flush(applyUpdate(st, Head(updates)), Tail(updates))

\* Faulty variant of updatesAuthState: no commit is seen to replace authState, so the
\* effect is never scheduled again.
updatesAuthState_never(updates) == FALSE

\* The effect's dependency [authState]: the commit replaces the authState
\* object when an updater ran (each updater returns a new object).
updatesAuthState(updates) ==
    \E i \in 1..Len(updates) : updates[i].hook = "authState"

----------------------------------------------------------------------------
(* The handlers: the updates each one queues, given the values it closes over *)

clearMessages == <<setError(Null), setSuccess(Null)>>

\* Faulty variant of some: the duplicate test never finds the username.
some_never(users, name) == FALSE

\* Array.prototype.some with the test user.username === name.
some(users, name) == \E i \in 1..Len(users) : users[i].username = name

\* Faulty variant of handleRegister: a refused call still replaces authState (by a
\* copy of itself).
handleRegister_touches(c) ==
    IF c.username = "" \/ c.password = <<>>
    THEN clearMessages \o <<setError(Some("Please fill in all fields"))>>
    ELSE IF ~validatePassword(c.password)
    THEN clearMessages \o <<setError(Some("Password must be at least 8 characters and contain uppercase, lowercase, numbers, and special characters"))>>
    ELSE IF some(c.authState.users, c.username)
    THEN clearMessages \o
         <<setAuthState([fn |-> "clearCurrentUser"]),
           setError(Some("Username already exists"))>>
    ELSE LET hash == quantumHash(Text(c.password))
             newUser == [username |-> c.username, hash |-> hash]
         IN  clearMessages \o
             <<setAuthState([fn |-> "appendUser", newUser |-> newUser]),
               setSuccess(Some("Registration successful!")),
               setUsername(""),
               setPassword(<<>>)>>

\* Faulty variant of handleRegister: the call is refused while a session is open.
handleRegister_loggedOutOnly(c) ==
    IF c.authState.isAuthenticated \/ c.username = "" \/ c.password = <<>>
    THEN clearMessages \o <<setError(Some("Please fill in all fields"))>>
    ELSE IF ~validatePassword(c.password)
    THEN clearMessages \o <<setError(Some("Password must be at least 8 characters and contain uppercase, lowercase, numbers, and special characters"))>>
    ELSE IF some(c.authState.users, c.username)
    THEN clearMessages \o <<setError(Some("Username already exists"))>>
    ELSE LET hash == quantumHash(Text(c.password))
             newUser == [username |-> c.username, hash |-> hash]
         IN  clearMessages \o
             <<setAuthState([fn |-> "appendUser", newUser |-> newUser]),
               setSuccess(Some("Registration successful!")),
               setUsername(""),
               setPassword(<<>>)>>

\* Faulty variant of handleRegister: the duplicate test comes before the policy.
handleRegister_dupFirst(c) ==
    IF c.username = "" \/ c.password = <<>>
    THEN clearMessages \o <<setError(Some("Please fill in all fields"))>>
    ELSE IF some(c.authState.users, c.username)
    THEN clearMessages \o <<setError(Some("Username already exists"))>>
    ELSE IF ~validatePassword(c.password)
    THEN clearMessages \o <<setError(Some("Password must be at least 8 characters and contain uppercase, lowercase, numbers, and special characters"))>>
    ELSE LET hash == quantumHash(Text(c.password))
             newUser == [username |-> c.username, hash |-> hash]
         IN  clearMessages \o
             <<setAuthState([fn |-> "appendUser", newUser |-> newUser]),
               setSuccess(Some("Registration successful!")),
               setUsername(""),
               setPassword(<<>>)>>

handleRegister(c) ==
    IF c.username = "" \/ c.password = <<>>
    THEN clearMessages \o <<setError(Some("Please fill in all fields"))>>
    ELSE IF ~validatePassword(c.password)
    THEN clearMessages \o <<setError(Some("Password must be at least 8 characters and contain uppercase, lowercase, numbers, and special characters"))>>
    ELSE IF some(c.authState.users, c.username)
    THEN clearMessages \o <<setError(Some("Username already exists"))>>
    ELSE LET hash == quantumHash(Text(c.password))
             newUser == [username |-> c.username, hash |-> hash]
         IN  clearMessages \o
             <<setAuthState([fn |-> "appendUser", newUser |-> newUser]),
               setSuccess(Some("Registration successful!")),
               setUsername(""),
               setPassword(<<>>)>>

\* Faulty variant of find: the first element, whatever its username.
find_any(users, name) == IF users = <<>> THEN Null ELSE Some(users[1])

\* Array.prototype.find: the first element with the username, or Null.
find(users, name) ==
    LET idx == {i \in 1..Len(users) : users[i].username = name}
    IN  IF idx = {} THEN Null
        ELSE Some(users[CHOOSE i \in idx : \A j \in idx : i <= j])

\* Faulty variant of handleLogin: a wrong password also ends the open session.
handleLogin_logsOut(c) ==
    IF c.username = "" \/ c.password = <<>>
    THEN clearMessages \o <<setError(Some("Please fill in all fields"))>>
    ELSE LET user == find(c.authState.users, c.username)
         IN  IF user = Null
             THEN clearMessages \o <<setError(Some("User not found"))>>
             ELSE IF quantumHash(Text(c.password)) # user[1].hash
             THEN clearMessages \o
                  <<setError(Some("Invalid password")),
                    setAuthState([fn |-> "clearCurrentUser"])>>
             ELSE clearMessages \o
                  <<setAuthState([fn |-> "setCurrentUser", username |-> c.username]),
                    setSuccess(Some("Login successful!")),
                    setUsername(""),
                    setPassword(<<>>)>>

handleLogin(c) ==
    IF c.username = "" \/ c.password = <<>>
    THEN clearMessages \o <<setError(Some("Please fill in all fields"))>>
    ELSE LET user == find(c.authState.users, c.username)
         IN  IF user = Null
             THEN clearMessages \o <<setError(Some("User not found"))>>
             ELSE IF quantumHash(Text(c.password)) # user[1].hash
             THEN clearMessages \o <<setError(Some("Invalid password"))>>
             ELSE clearMessages \o
                  <<setAuthState([fn |-> "setCurrentUser", username |-> c.username]),
                    setSuccess(Some("Login successful!")),
                    setUsername(""),
                    setPassword(<<>>)>>

handleLogout(c) ==
    <<setAuthState([fn |-> "clearCurrentUser"])>> \o clearMessages

----------------------------------------------------------------------------
(* The component *)

\* What the handlers of the current render close over.
closure == [username |-> username, password |-> password, authState |-> authState]

hooks == [username |-> username, password |-> password, error |-> error,
          success |-> success, authState |-> authState]

\* The value the authState variable holds after a mount: the initializer's
\* result, or (no component state exists after a failed mount) the default.
mountedAuthState(stored) ==
    IF mountFails(stored)
    THEN [users |-> <<>>, currentUser |-> Null, isAuthenticated |-> FALSE]
    ELSE initialAuthState(stored)

\* First render of a fresh page: every hook takes its initial value, authState
\* is loaded from localStorage, and the persist effect is scheduled; or the
\* mount fails and nothing is rendered.
Mounted(stored) ==
    /\ username = ""
    /\ password = <<>>
    /\ error = Null
    /\ success = Null
    /\ authState = mountedAuthState(stored)
    /\ effectPending = ~mountFails(stored)
    /\ localStorage = stored
    /\ queue = <<>>
    /\ mounted = ~mountFails(stored)
    /\ lastCall = [op |-> "mount", username |-> "", password |-> <<>>,
                   authState |-> mountedAuthState(stored), stored |-> stored,
                   pending |-> FALSE]

Init == Mounted(Null)

\* A handler runs as one event: React applies the updates it queued when it
\* returns. A render starts by flushing a passive effect still pending from the
\* previous commit; a commit that replaced authState schedules the effect again.
Dispatch(op, updates) ==
    LET new == flush(hooks, updates)
    IN  /\ mounted
        /\ queue = <<>>
        /\ username' = new.username
        /\ password' = new.password
        /\ error' = new.error
        /\ success' = new.success
        /\ authState' = new.authState
        /\ localStorage' = IF updatesAuthState(updates) /\ effectPending
                           THEN Some(JSONstringify(authState))
                           ELSE localStorage
        /\ effectPending' = (effectPending \/ updatesAuthState(updates))
        /\ UNCHANGED <<queue, mounted>>
        /\ lastCall' = [op |-> op, username |-> username, password |-> password,
                        authState |-> authState, stored |-> localStorage,
                        pending |-> effectPending]

\* onChange of the username input.
ChangeUsername ==
    \E v \in Usernames :
        /\ mounted
        /\ queue = <<>>
        /\ v # username
        /\ username' = v
        /\ UNCHANGED <<password, error, success, authState, effectPending,
                       localStorage, queue, mounted, lastCall>>

\* onChange of the password input.
ChangePassword ==
    \E v \in Passwords :
        /\ mounted
        /\ queue = <<>>
        /\ v # password
        /\ password' = v
        /\ UNCHANGED <<username, error, success, authState, effectPending,
                       localStorage, queue, mounted, lastCall>>

\* The three handlers, called with the values of the current render. They are
\* called in any session state: the form is rendered only while logged out
\* and the Logout button only while logged in, but the handlers themselves
\* test nothing of the kind.
Register == Dispatch("register", handleRegister(closure))

Login == Dispatch("login", handleLogin(closure))

Logout == Dispatch("logout", handleLogout(closure))

\* useEffect(() => localStorage.setItem(STORAGE_KEY, JSON.stringify(authState)))
PersistEffect ==
    /\ effectPending
    /\ localStorage' = Some(JSONstringify(authState))
    /\ effectPending' = FALSE
    /\ UNCHANGED <<username, password, error, success, authState, queue,
                   mounted, lastCall>>

\* The page is closed and opened again: a cold start from what is stored.
\* Updates that were queued and not committed are gone with the old page.
Reload ==
    /\ username' = ""
    /\ password' = <<>>
    /\ error' = Null
    /\ success' = Null
    /\ authState' = mountedAuthState(localStorage)
    /\ effectPending' = ~mountFails(localStorage)
    /\ localStorage' = localStorage
    /\ queue' = <<>>
    /\ mounted' = ~mountFails(localStorage)
    /\ lastCall' = [op |-> "mount", username |-> "", password |-> <<>>,
                    authState |-> mountedAuthState(localStorage),
                    stored |-> localStorage, pending |-> FALSE]

Next ==
    \/ ChangeUsername
    \/ ChangePassword
    \/ Register
    \/ Login
    \/ Logout
    \/ PersistEffect
    \/ Reload

Spec == Init /\ [][Next]_vars

----------------------------------------------------------------------------
(* A first start on a storage that this session did not write *)

\* A text that is not JSON.
StoredNotJSON == [type |-> "malformed"]

\* The JSON text {}.
StoredEmptyObject == [type |-> "object", members |-> <<>>]

\* A JSON text of the AuthState shape that no session writes: one username
\* twice, and a currentUser that is not among the users.
StoredUnrecognised ==
    JSONstringify([users |-> <<[username |-> "alice", hash |-> "0a"],
                               [username |-> "alice", hash |-> "0b"]>>,
                   currentUser |-> Some("Alice"),
                   isAuthenticated |-> FALSE])

UnknownStored == {StoredNotJSON, StoredEmptyObject, StoredUnrecognised}

\* What localStorage.getItem(STORAGE_KEY) may return at the first start.
StoredAtStart == {Null} \cup {Some(text) : text \in UnknownStored}

InitStored == \E stored \in StoredAtStart : Mounted(stored)

SpecStored == InitStored /\ [][Next]_vars

----------------------------------------------------------------------------
(* Handler calls and commits as separate steps: a handler that is called
   again before React has rendered again runs with the values of the same
   render, and the updates of all the calls are applied in one commit *)

MaxPending == 2

MaxStore == 3

\* All the updates queued, in call order.
RECURSIVE queued(_)
queued(calls) == IF calls = <<>> THEN <<>> ELSE Head(calls) \o queued(Tail(calls))

\* A handler runs with the values of the current render and queues its updates.
Invoke(op, updates) ==
    /\ mounted
    /\ Len(queue) < MaxPending
    /\ Len(authState.users) + Len(queue) < MaxStore
    /\ queue' = Append(queue, updates)
    /\ lastCall' = [op |-> op, username |-> username, password |-> password,
                    authState |-> authState, stored |-> localStorage,
                    pending |-> effectPending]
    /\ UNCHANGED <<username, password, error, success, authState, effectPending,
                   localStorage, mounted>>

InvokeRegister == Invoke("register", handleRegister(closure))

InvokeLogin == Invoke("login", handleLogin(closure))

InvokeLogout == Invoke("logout", handleLogout(closure))

\* React renders: the queued updates are applied in call order, each updater
\* to the result of the one before it.
Commit ==
    LET new == flush(hooks, queued(queue))
    IN  /\ mounted
        /\ queue # <<>>
        /\ username' = new.username
        /\ password' = new.password
        /\ error' = new.error
        /\ success' = new.success
        /\ authState' = new.authState
        /\ localStorage' = IF updatesAuthState(queued(queue)) /\ effectPending
                           THEN Some(JSONstringify(authState))
                           ELSE localStorage
        /\ effectPending' = (effectPending \/ updatesAuthState(queued(queue)))
        /\ queue' = <<>>
        /\ UNCHANGED <<mounted, lastCall>>

NextInterleaved ==
    \/ ChangeUsername
    \/ ChangePassword
    \/ InvokeRegister
    \/ InvokeLogin
    \/ InvokeLogout
    \/ Commit
    \/ PersistEffect

SpecInterleaved == Init /\ [][NextInterleaved]_vars

----------------------------------------------------------------------------
(* Register called on typed passwords of every kind the policy tells apart *)

MaxTail == 3

\* Five characters: nothing, all of upper case, lower case and digit, or all
\* but one of them.
PolicyStems == {<<>>,
                <<"P", "a", "s", "s", "1">>,
                <<"p", "a", "s", "s", "1">>,
                <<"P", "A", "S", "S", "1">>,
                <<"P", "a", "s", "s", "w">>}

\* A special character, a letter, and a character of two UTF-16 code units.
PolicyTailChars == {"!", "a", "U+1F600"}

\* The character sequences over PolicyTailChars of length n at most.
RECURSIVE Tails(_)
Tails(n) ==
    IF n = 0 THEN {<<>>}
    ELSE Tails(n - 1) \cup
         {Append(t, ch) : t \in {u \in Tails(n - 1) : Len(u) = n - 1},
                          ch \in PolicyTailChars}

PolicyPasswords == {stem \o tail : stem \in PolicyStems, tail \in Tails(MaxTail)}

\* The page after a first start on an empty storage, with a username and a
\* password typed into the form.
InitPolicy ==
    \E name \in Usernames, pw \in PolicyPasswords :
        /\ username = name
        /\ password = pw
        /\ error = Null
        /\ success = Null
        /\ authState = initialAuthState(Null)
        /\ effectPending = TRUE
        /\ localStorage = Null
        /\ queue = <<>>
        /\ mounted = TRUE
        /\ lastCall = [op |-> "mount", username |-> "", password |-> <<>>,
                       authState |-> initialAuthState(Null), stored |-> Null,
                       pending |-> FALSE]

NextPolicy ==
    \/ Register
    \/ PersistEffect

SpecPolicy == InitPolicy /\ [][NextPolicy]_vars

----------------------------------------------------------------------------
(* Properties *)

MsgMissingField == Some("Please fill in all fields")
MsgWeakPassword == Some("Password must be at least 8 characters and contain uppercase, lowercase, numbers, and special characters")
MsgDuplicateUser == Some("Username already exists")
MsgUserNotFound == Some("User not found")
MsgInvalidCredentials == Some("Invalid password")
MsgRegistered == Some("Registration successful!")
MsgLoggedIn == Some("Login successful!")

\* The positions of the store entries with the given username.
Entries(users, name) == {i \in 1..Len(users) : users[i].username = name}

\* The digest the code derives from a password.
Digest(pw) == quantumHash(Text(pw))

\* The last call was a register whose username was already in the store
\* (with both fields filled in and a password the policy accepts).
DuplicateRegister ==
    /\ lastCall.op = "register"
    /\ lastCall.username # ""
    /\ validatePassword(lastCall.password)
    /\ Entries(lastCall.authState.users, lastCall.username) # {}

\* C1: no two entries of the credential store share a username (exact,
\* case-sensitive comparison), in every state reached from the empty store;
\* and a register of a username that is already registered reports "Username
\* already exists" and leaves exactly one entry for it.
C1_UniqueUsernames ==
    /\ \A i, j \in 1..Len(authState.users) :
            authState.users[i].username = authState.users[j].username => i = j
    /\ DuplicateRegister =>
            /\ error = MsgDuplicateUser
            /\ success = Null
            /\ Cardinality(Entries(authState.users, lastCall.username)) = 1

\* A duplicate register was refused while "alice" and "Alice" are both stored.
C1_Witness ==
    /\ DuplicateRegister
    /\ error = MsgDuplicateUser
    /\ Entries(authState.users, "alice") # {}
    /\ Entries(authState.users, "Alice") # {}

\* C2: currentUser is null or the username of an entry of the store.
C2_ActiveUserInStore ==
    authState.currentUser # Null =>
        Entries(authState.users, authState.currentUser[1]) # {}

\* A user is logged in after a login call, with two users in the store.
C2_Witness ==
    /\ lastCall.op = "login"
    /\ authState.currentUser = Some(lastCall.username)
    /\ Len(authState.users) = 2


\* The credential that register(username, password) stores.
Credential(name, pw) == [username |-> name, hash |-> Digest(pw)]

\* The last call was a register that reported success.
RegisterSucceeded == lastCall.op = "register" /\ success = MsgRegistered

\* The last call was a login, with both fields filled in, whose username and
\* password are those of a credential of the store it ran against.
LoginWithStoredCredential ==
    /\ lastCall.op = "login"
    /\ lastCall.username # ""
    /\ lastCall.password # <<>>
    /\ \E i \in 1..Len(lastCall.authState.users) :
           lastCall.authState.users[i] = Credential(lastCall.username, lastCall.password)

\* Every entry of the store is at the same place in the next state.
KeepsCredentials ==
    \A i \in 1..Len(authState.users) :
        /\ i <= Len(authState'.users)
        /\ authState'.users[i] = authState.users[i]

\* C3: once register(u, p) has succeeded the credential (u, derive(p)) is in
\* the store; every register, login, logout (and every input and effect step)
\* keeps the credentials that are stored; and a login with the username and
\* password of a stored credential reports success and sets currentUser to
\* that username, whatever the session state was. So the login succeeds in
\* every later state of the session, also after a login and a logout.
C3_RegisterThenLogin ==
    /\ [](RegisterSucceeded =>
            \E i \in 1..Len(authState.users) :
                authState.users[i] = Credential(lastCall.username, lastCall.password))
    /\ [][Reload \/ KeepsCredentials]_vars
    /\ [](LoginWithStoredCredential =>
            /\ success = MsgLoggedIn
            /\ error = Null
            /\ authState.currentUser = Some(lastCall.username)
            /\ authState.isAuthenticated)

\* A login with a stored credential succeeded from the logged-out state while
\* a second user is registered.
C3_Witness ==
    /\ LoginWithStoredCredential
    /\ lastCall.authState.currentUser = Null
    /\ authState.currentUser = Some(lastCall.username)
    /\ success = MsgLoggedIn
    /\ Len(authState.users) = 2

\* The last call was a login, with both fields filled in, of a username that
\* no credential of the store has.
LoginUnknownUser ==
    /\ lastCall.op = "login"
    /\ lastCall.username # ""
    /\ lastCall.password # <<>>
    /\ Entries(lastCall.authState.users, lastCall.username) = {}

\* The last call was a login, with both fields filled in, of a stored username
\* with a password whose digest is not the stored one.
LoginWrongPassword ==
    /\ lastCall.op = "login"
    /\ lastCall.username # ""
    /\ lastCall.password # <<>>
    /\ Entries(lastCall.authState.users, lastCall.username) # {}
    /\ \A i \in Entries(lastCall.authState.users, lastCall.username) :
           lastCall.authState.users[i].hash # Digest(lastCall.password)

\* C4: a login of an unknown username reports "User not found", a login with a
\* password whose digest differs from the stored one reports "Invalid
\* password"; both leave users, currentUser and isAuthenticated as they were.
C4_FailedLoginKeepsState ==
    /\ LoginUnknownUser =>
            /\ error = MsgUserNotFound
            /\ success = Null
            /\ authState = lastCall.authState
    /\ LoginWrongPassword =>
            /\ error = MsgInvalidCredentials
            /\ success = Null
            /\ authState = lastCall.authState

\* A login with a wrong password was refused while another session is open.
C4_Witness ==
    /\ LoginWrongPassword
    /\ error = MsgInvalidCredentials
    /\ authState.currentUser # Null
    /\ authState.currentUser # Some(lastCall.username)

\* The last call was a login that reported success.
LoginSucceeded == lastCall.op = "login" /\ success = MsgLoggedIn

\* C5: a login that succeeds leaves currentUser equal to its username and
\* isAuthenticated true, whether the session was logged out or open for
\* another user, and leaves the store as it was; currentUser is the only
\* record of who is logged in, so the earlier user is no longer active.
C5_LoginSetsActiveUser ==
    LoginSucceeded =>
        /\ authState.currentUser = Some(lastCall.username)
        /\ authState.isAuthenticated
        /\ authState.users = lastCall.authState.users
        /\ Entries(lastCall.authState.users, lastCall.username) # {}

\* A login succeeded while the session was open for another user.
C5_Witness ==
    /\ LoginSucceeded
    /\ lastCall.authState.currentUser # Null
    /\ lastCall.authState.currentUser # Some(lastCall.username)
    /\ authState.currentUser = Some(lastCall.username)

\* The last call was a register that fails a precondition.
RegisterRefused ==
    /\ lastCall.op = "register"
    /\ \/ lastCall.username = ""
       \/ lastCall.password = <<>>
       \/ ~validatePassword(lastCall.password)
       \/ Entries(lastCall.authState.users, lastCall.username) # {}

\* Since the last call no commit replaced authState: the storage is what it
\* was, or what the effect still pending at the call wrote for the state the
\* call started from.
NotPersistedSinceCall ==
    IF lastCall.pending
    THEN \/ effectPending /\ localStorage = lastCall.stored
         \/ ~effectPending /\ localStorage = Some(JSONstringify(lastCall.authState))
    ELSE ~effectPending /\ localStorage = lastCall.stored

\* C6: a register that fails a precondition reports an error and no success,
\* leaves users, currentUser and isAuthenticated as they were, and schedules
\* no write of the storage.
C6_RefusedRegisterKeepsState ==
    RegisterRefused =>
        /\ error \in {MsgMissingField, MsgWeakPassword, MsgDuplicateUser}
        /\ success = Null
        /\ authState = lastCall.authState
        /\ NotPersistedSinceCall

\* A register of a stored username was refused while a session is open and
\* the storage is up to date.
C6_Witness ==
    /\ RegisterRefused
    /\ error = MsgDuplicateUser
    /\ authState.currentUser # Null
    /\ ~lastCall.pending

\* The last call was a register that meets every precondition.
RegisterAccepted ==
    /\ lastCall.op = "register"
    /\ lastCall.username # ""
    /\ validatePassword(lastCall.password)
    /\ Entries(lastCall.authState.users, lastCall.username) = {}

\* C7: a register that meets its preconditions reports success, appends
\* exactly the credential (username, derive(password)) to the store and
\* leaves currentUser and isAuthenticated as they were.
C7_RegisterAppendsOnly ==
    RegisterAccepted =>
        /\ success = MsgRegistered
        /\ authState.users =
               Append(lastCall.authState.users,
                      Credential(lastCall.username, lastCall.password))
        /\ authState.currentUser = lastCall.authState.currentUser
        /\ authState.isAuthenticated = lastCall.authState.isAuthenticated

\* A second user was registered while the first one is logged in.
C7_Witness ==
    /\ RegisterAccepted
    /\ success = MsgRegistered
    /\ Len(authState.users) = 2
    /\ authState.currentUser = Some(authState.users[1].username)

\* C8: after logout currentUser is null, isAuthenticated is false and the store
\* is the one before the call; from the logged-out state logout leaves the
\* whole state as it was (a second logout changes nothing).
C8_LogoutClearsSession ==
    lastCall.op = "logout" =>
        /\ authState.currentUser = Null
        /\ authState.isAuthenticated = FALSE
        /\ authState.users = lastCall.authState.users
        /\ lastCall.authState.currentUser = Null => authState = lastCall.authState

\* A logout ended the session of a user, with two users in the store.
C8_Witness ==
    /\ lastCall.op = "logout"
    /\ lastCall.authState.currentUser # Null
    /\ authState.currentUser = Null
    /\ Len(authState.users) = 2

\* A logout was called in the logged-out state.
C8_WitnessLoggedOut ==
    /\ lastCall.op = "logout"
    /\ lastCall.authState.currentUser = Null
    /\ Len(authState.users) = 2

\* The last call was a register, login or logout that changed the store or
\* the active user.
CallChangedState ==
    /\ lastCall.op \in {"register", "login", "logout"}
    /\ authState # lastCall.authState

ColdStarted == lastCall.op = "mount"

EmptyAuthState == [users |-> <<>>, currentUser |-> Null, isAuthenticated |-> FALSE]

\* C10 as stated: after a cold start nobody is logged in, and the store is the
\* stored one (empty if nothing was stored).
C10_ColdStartAnonymous ==
    ColdStarted =>
        /\ authState.currentUser = Null
        /\ authState.isAuthenticated = FALSE
        /\ IF lastCall.stored = Null
           THEN authState.users = <<>>
           ELSE \E cu \in {Null} \cup {Some(u) : u \in Usernames}, b \in BOOLEAN :
                    lastCall.stored =
                        Some(JSONstringify([users |-> authState.users,
                                            currentUser |-> cu,
                                            isAuthenticated |-> b]))

\* C10, amended: after a cold start the state is the stored one, users,
\* currentUser and isAuthenticated alike (a state stored while a user was
\* logged in starts logged in); it is the empty logged-out state if nothing
\* was stored.
C10_ColdStartRestoresStored ==
    ColdStarted =>
        IF lastCall.stored = Null
        THEN authState = EmptyAuthState
        ELSE lastCall.stored = Some(JSONstringify(authState))

\* A cold start from a state stored while a user was logged in.
C10_Witness ==
    /\ ColdStarted
    /\ lastCall.stored # Null
    /\ authState.currentUser # Null
    /\ Len(authState.users) = 2

\* C11: serializing the state and deserializing it at startup gives the state
\* back, users (same entries, same order), currentUser and isAuthenticated:
\* for every state the session reaches, and for the stored text itself once
\* the persist effect has run.
C11_RoundTrip ==
    /\ initialAuthState(Some(JSONstringify(authState))) = authState
    /\ ~effectPending => initialAuthState(localStorage) = authState

\* The state with two users and one of them logged in has been stored.
C11_Witness ==
    /\ ~effectPending
    /\ localStorage = Some(JSONstringify(authState))
    /\ Len(authState.users) = 2
    /\ authState.currentUser = Some(authState.users[2].username)

\* The stored text says isAuthenticated exactly when its currentUser is not null.
StoredConsistent ==
    localStorage # Null =>
        (Member(localStorage[1], "isAuthenticated").value
            <=> Member(localStorage[1], "currentUser").type # "null")

\* C12: isAuthenticated is true exactly when currentUser is not null, in the
\* state in memory and in every text written to the storage.
C12_AuthenticatedIffCurrentUser ==
    /\ authState.isAuthenticated <=> authState.currentUser # Null
    /\ StoredConsistent

\* A logged-in state is in memory and in the storage.
C12_Witness ==
    /\ authState.isAuthenticated
    /\ authState.currentUser # Null
    /\ localStorage # Null
    /\ Member(localStorage[1], "isAuthenticated").value

\* C13: after a cold start the component is mounted (loading is never fatal);
\* with nothing stored, or with a stored text the program does not recognise,
\* the state is the empty initial state; and the state keeps the invariants of
\* the store and the session.
C13_UnknownStoredIsEmpty ==
    ColdStarted =>
        /\ mounted
        /\ (lastCall.stored = Null \/ lastCall.stored[1] \in UnknownStored) =>
                authState = EmptyAuthState
        /\ \A i, j \in 1..Len(authState.users) :
                authState.users[i].username = authState.users[j].username => i = j
        /\ authState.currentUser # Null =>
                Entries(authState.users, authState.currentUser[1]) # {}
        /\ authState.isAuthenticated <=> authState.currentUser # Null

\* The store of the next state has at most one entry more than this one, and
\* has one more only when a register reports success.
GrowsByRegisterOnly ==
    /\ Len(authState'.users) <= Len(authState.users) + 1
    /\ Len(authState'.users) = Len(authState.users) + 1 =>
            lastCall'.op = "register" /\ success' = MsgRegistered

\* C14: every step of a running session (register, login, logout, input,
\* effect) keeps each stored credential at its place, unchanged, so an earlier
\* store is a prefix of every later one; so does a cold start once the effect
\* has written the state. The store grows by exactly one entry on a register
\* that succeeds and by none otherwise; login and logout leave it as it was.
C14_AppendOnly ==
    /\ [][(effectPending /\ Reload) \/ (KeepsCredentials /\ GrowsByRegisterOnly)]_vars
    /\ [](RegisterSucceeded =>
            /\ Len(authState.users) = Len(lastCall.authState.users) + 1
            /\ SubSeq(authState.users, 1, Len(lastCall.authState.users))
                   = lastCall.authState.users)
    /\ [](lastCall.op \in {"login", "logout"} =>
            authState.users = lastCall.authState.users)

\* A register succeeded on a store of one credential: the store holds two,
\* the first one where it was, and the storage still holds the store of one.
C14_Witness ==
    /\ RegisterSucceeded
    /\ Len(lastCall.authState.users) = 1
    /\ Len(authState.users) = 2
    /\ authState.users[1] = lastCall.authState.users[1]
    /\ authState.users[2].username = lastCall.username
    /\ localStorage # Null
    /\ Len(Member(localStorage[1], "users").items) = 1

\* The state with the same store and no session.
AsAnonymous(st) == [st EXCEPT !.currentUser = Null, !.isAuthenticated = FALSE]

\* What the last call's register gives when it is run with the same inputs
\* on the state st.
RegisterOutcome(st) ==
    flush([username |-> lastCall.username, password |-> lastCall.password,
           error |-> Null, success |-> Null, authState |-> st],
          handleRegister([username |-> lastCall.username,
                          password |-> lastCall.password, authState |-> st]))

\* C15: a register has the same outcome, and the same effect on the store,
\* as the same register run on the same store with no session; one that
\* meets its preconditions reports success and puts the credential at the
\* end of the store, whether a session is open or not, and leaves the session
\* as it was.
C15_RegisterFromEitherState ==
    lastCall.op = "register" =>
        /\ authState.users = RegisterOutcome(AsAnonymous(lastCall.authState)).authState.users
        /\ error = RegisterOutcome(AsAnonymous(lastCall.authState)).error
        /\ success = RegisterOutcome(AsAnonymous(lastCall.authState)).success
        /\ RegisterAccepted =>
                /\ success = MsgRegistered
                /\ Len(authState.users) = Len(lastCall.authState.users) + 1
                /\ authState.users[Len(authState.users)] =
                       Credential(lastCall.username, lastCall.password)
                /\ authState.currentUser = lastCall.authState.currentUser

\* A register succeeded while the session is open for another user.
C15_Witness ==
    /\ RegisterAccepted
    /\ success = MsgRegistered
    /\ lastCall.authState.isAuthenticated
    /\ lastCall.authState.currentUser # Null
    /\ lastCall.authState.currentUser # Some(lastCall.username)
    /\ authState.users[Len(authState.users)].username = lastCall.username

\* A register succeeded while no session is open.
C15_WitnessAnonymous ==
    /\ RegisterAccepted
    /\ success = MsgRegistered
    /\ ~lastCall.authState.isAuthenticated
    /\ authState.users[Len(authState.users)].username = lastCall.username

\* The policy as the specification words it: eight characters at least,
\* each element of the sequence being one character, and one character at
\* least of each of the four classes.
IsAcceptable(pw) ==
    /\ Len(pw) >= 8
    /\ \E i \in 1..Len(pw) : pw[i] \in UpperCase
    /\ \E i \in 1..Len(pw) : pw[i] \in LowerCase
    /\ \E i \in 1..Len(pw) : pw[i] \in Digits
    /\ \E i \in 1..Len(pw) : pw[i] \in SpecialChars

\* C16: validatePassword accepts the password of a register exactly when
\* the password has eight characters at least and a character of each of the
\* four classes; so a register with both fields filled in reports the weak
\* password error exactly when one of the five conditions fails.
C16_PolicyCountsCharacters ==
    (lastCall.op = "register" /\ lastCall.username # "" /\ lastCall.password # <<>>) =>
        /\ validatePassword(lastCall.password) <=> IsAcceptable(lastCall.password)
        /\ error = MsgWeakPassword <=> ~IsAcceptable(lastCall.password)

\* The digest the specification defines for the password text p.
Chain(p) ==
    LET h1 == SHA256(p)
        h2 == SHA256(h1 \o p)
        h3 == SHA256(h2 \o h1)
    IN  SHA256(h1 \o h2 \o h3)

C18_UniqueUnderInterleaving ==
    Cardinality({authState.users[i].username : i \in 1..Len(authState.users)})
        = Len(authState.users)

\* The one message a register reports, by precedence.
RegisterReport ==
    IF lastCall.username = "" \/ lastCall.password = <<>> THEN MsgMissingField
    ELSE IF ~validatePassword(lastCall.password) THEN MsgWeakPassword
    ELSE IF Entries(lastCall.authState.users, lastCall.username) # {}
    THEN MsgDuplicateUser
    ELSE MsgRegistered

\* The one message a login reports, by precedence.
LoginReport ==
    IF lastCall.username = "" \/ lastCall.password = <<>> THEN MsgMissingField
    ELSE IF Entries(lastCall.authState.users, lastCall.username) = {}
    THEN MsgUserNotFound
    ELSE IF \A i \in Entries(lastCall.authState.users, lastCall.username) :
                lastCall.authState.users[i].hash # Digest(lastCall.password)
    THEN MsgInvalidCredentials
    ELSE MsgLoggedIn

\* C19: a register and a login each report exactly one message, the first
\* that applies in the order missing field, weak password, duplicate user,
\* success (register) and missing field, user not found, invalid password,
\* success (login): an error with no success message, or the success message
\* with no error.
C19_OneOutcomeByPrecedence ==
    /\ lastCall.op = "register" =>
            IF RegisterReport = MsgRegistered
            THEN success = MsgRegistered /\ error = Null
            ELSE error = RegisterReport /\ success = Null
    /\ lastCall.op = "login" =>
            IF LoginReport = MsgLoggedIn
            THEN success = MsgLoggedIn /\ error = Null
            ELSE error = LoginReport /\ success = Null
    /\ (lastCall.op = "login" /\ error = MsgInvalidCredentials) =>
            Entries(lastCall.authState.users, lastCall.username) # {}

\* A register with a weak password of a username that is already registered
\* reported the weak password.
C19_Witness ==
    /\ lastCall.op = "register"
    /\ lastCall.password # <<>>
    /\ ~validatePassword(lastCall.password)
    /\ Entries(lastCall.authState.users, lastCall.username) # {}
    /\ error = MsgWeakPassword
    /\ success = Null

\* A login of an unknown username with a password reported the unknown user.
C19_WitnessLogin ==
    /\ lastCall.op = "login"
    /\ lastCall.password # <<>>
    /\ lastCall.username # ""
    /\ Entries(lastCall.authState.users, lastCall.username) = {}
    /\ lastCall.authState.users # <<>>
    /\ error = MsgUserNotFound

====
